---- MODULE Spec2Model ----
(***************************************************************************)
(* Habit tracker API: tracking-day bucketing, completion logging and       *)
(* streaks (TrackingService), trackedToday enrichment (HabitService), goal *)
(* progress (GoalService) and the refresh-token lifecycle (AuthService and *)
(* the /auth routes), over one relational store.                           *)
(*                                                                         *)
(* Time is in milliseconds since the epoch, as Date.getTime() returns it.  *)
(***************************************************************************)
EXTENDS Integers, Sequences, FiniteSets, TLC

\* ------------------------------------------------------------------------
\* Program constants
\* ------------------------------------------------------------------------
VNT_OFFSET_MS == 25200000
MS_PER_DAY == 86400000
MS_PER_SECOND == 1000
REFRESH_TTL_MS == 604800000
REFRESH_TTL_S == 604800
ACCESS_TTL_S == 900
PASSWORD_MIN_LENGTH == 8
PASSWORD_MAX_LENGTH == 72
BCRYPT_MAX_BYTES == 72

\* ------------------------------------------------------------------------
\* Bounds of the model
\* ------------------------------------------------------------------------
FirstDay == 1
MaxDay == 4
MaxRows == 3
MaxTokens == 3
MaxTarget == 5
MaxGoals == 2
MaxRequests == 2
MaxGoalIds == 3

Days == FirstDay..MaxDay

\* Offsets inside a tracking day: its first and its last millisecond.
DayOffsets == {0, MS_PER_DAY - 1}

\* The instant that lies o milliseconds into tracking day d.
TimeOf(d, o) == d * MS_PER_DAY - VNT_OFFSET_MS + o

TimePoints == {TimeOf(d, o) : d \in Days, o \in DayOffsets}

\* Offsets of the server's local time zone from UTC (the process
\* environment): UTC and UTC+7.
ServerZones == {0, VNT_OFFSET_MS}

Min(a, b) == IF a < b THEN a ELSE b

Range(s) == {s[i] : i \in 1..Len(s)}

\* ------------------------------------------------------------------------
\* TrackingService: day bucketing
\* ------------------------------------------------------------------------
getVntDayIndexUtc(t) == t \div MS_PER_DAY

getVntDayIndexMinus(t) == (t - VNT_OFFSET_MS) \div MS_PER_DAY

getVntDayIndex(t) == (t + VNT_OFFSET_MS) \div MS_PER_DAY

getVntDayBoundsShort(t) ==
  LET vntMs == t + VNT_OFFSET_MS
      startVntMs == (vntMs \div MS_PER_DAY) * MS_PER_DAY
      startUtcMs == startVntMs - VNT_OFFSET_MS
  IN [start |-> startUtcMs, end |-> startUtcMs + MS_PER_DAY - 2]

getVntDayBounds(t) ==
  LET vntMs == t + VNT_OFFSET_MS
      startVntMs == (vntMs \div MS_PER_DAY) * MS_PER_DAY
      startUtcMs == startVntMs - VNT_OFFSET_MS
  IN [start |-> startUtcMs, end |-> startUtcMs + MS_PER_DAY - 1]

\* Date.setHours(0,0,0,0) / setHours(23,59,59,999) in a zone at a fixed
\* offset zone from UTC.
localDayBounds(t, zone) ==
  LET startLocal == ((t + zone) \div MS_PER_DAY) * MS_PER_DAY
  IN [start |-> startLocal - zone, end |-> startLocal - zone + MS_PER_DAY - 1]

\* ------------------------------------------------------------------------
\* State
\* ------------------------------------------------------------------------
VARIABLES
  now,            \* the server clock (ms)
  tz,             \* the server's local time zone offset (ms)
  users,          \* table User: set of [id, email, password]
  habits,         \* table Habit: set of [id, userId, name, isActive]
  tracking,       \* table HabitTracking in insertion order:
                  \*   sequence of [habitId, userId, completedAt, streak]
  goals,          \* table HabitGoal: set of [id, habitId, userId,
                  \*   targetFrequency, goalType]
  refreshTokens,  \* table RefreshToken: set of [token, userId, expiresAt]
  nextId,         \* [user, habit, goal]: ids handed out so far
  issued,         \* refresh tokens returned to clients
  retired,        \* refresh tokens rotated out, revoked or expired-deleted
  resp,           \* the last response sent
  reqs            \* in-flight requests of the interleaved specifications

vars == <<now, tz, users, habits, tracking, goals, refreshTokens, nextId,
          issued, retired, resp, reqs>>

NoResp == [op |-> "none", status |-> 0]


UserIds == {u.id : u \in users}
HabitIds == {h.id : h \in habits}
Rows == Range(tracking)

\* ------------------------------------------------------------------------
\* The clock
\* ------------------------------------------------------------------------
Tick(points) ==
  /\ \E t \in points : t > now /\ now' = t
  /\ UNCHANGED <<tz, users, habits, tracking, goals, refreshTokens, nextId,
                 issued, retired, resp, reqs>>

\* ------------------------------------------------------------------------
\* TrackingService.logCompletion
\* ------------------------------------------------------------------------
InRange(t, b) == b.start <= t /\ t <= b.end

\* findFirst({where: {habitId, completedAt: {gte, lte}}})
existingTracking(rows, habitId, completedAt) ==
  {r \in rows : r.habitId = habitId
                /\ InRange(r.completedAt, getVntDayBounds(completedAt))}

\* findFirst({where: {habitId}, orderBy: {completedAt: "desc"}})
lastTracking(rows, habitId) ==
  {r \in rows : r.habitId = habitId
                /\ \A q \in rows : q.habitId = habitId
                                   => q.completedAt <= r.completedAt}

\* A streak rule that continues the streak over any later day.
computeStreakAnyGap(rows, habitId, completedAt) ==
  IF lastTracking(rows, habitId) = {} THEN 1
  ELSE LET last == CHOOSE r \in lastTracking(rows, habitId) : TRUE
           daysDiff == getVntDayIndex(completedAt)
                       - getVntDayIndex(last.completedAt)
       IN IF daysDiff >= 1 THEN last.streak + 1 ELSE 1

\* A streak rule that keeps the streak over a gap instead of resetting it.
computeStreakNoReset(rows, habitId, completedAt) ==
  IF lastTracking(rows, habitId) = {} THEN 1
  ELSE LET last == CHOOSE r \in lastTracking(rows, habitId) : TRUE
           daysDiff == getVntDayIndex(completedAt)
                       - getVntDayIndex(last.completedAt)
       IN IF daysDiff = 1 THEN last.streak + 1 ELSE last.streak

\* A streak rule that also continues the streak from the day after.
computeStreakAbs(rows, habitId, completedAt) ==
  IF lastTracking(rows, habitId) = {} THEN 1
  ELSE LET last == CHOOSE r \in lastTracking(rows, habitId) : TRUE
           daysDiff == getVntDayIndex(completedAt)
                       - getVntDayIndex(last.completedAt)
       IN IF daysDiff = 1 \/ daysDiff = -1 THEN last.streak + 1 ELSE 1

computeStreak(rows, habitId, completedAt) ==
  IF lastTracking(rows, habitId) = {} THEN 1
  ELSE LET last == CHOOSE r \in lastTracking(rows, habitId) : TRUE
           daysDiff == getVntDayIndex(completedAt)
                       - getVntDayIndex(last.completedAt)
       IN IF daysDiff = 1 THEN last.streak + 1 ELSE 1

\* The outcome of prisma.habitTracking.create for a row: the foreign key
\* HabitTracking_habitId_fkey (P2003) and the unique index
\* HabitTracking_habitId_completedAt_key (P2002).
trackingCreateError(rows, hs, row) ==
  IF row.habitId \notin {h.id : h \in hs} THEN "P2003"
  ELSE IF \E r \in rows : r.habitId = row.habitId
                          /\ r.completedAt = row.completedAt THEN "P2002"
  ELSE "ok"

\* POST /habits/:habitId/track by the authenticated user u, handled without
\* interleaving. completedAt is data.completedAt, or the clock when absent.
\* The route answers 400 when the message contains "already logged", 404
\* on P2025, and rethrows anything else (500).
DuplicateMessage == "Habit already logged for this date"

LogCompletion(u, habitId, completedAt) ==
  /\ u \in UserIds
  /\ LET row == [habitId |-> habitId, userId |-> u,
                 completedAt |-> completedAt,
                 streak |-> computeStreak(Rows, habitId, completedAt)]
         err == trackingCreateError(Rows, habits, row)
     IN IF existingTracking(Rows, habitId, completedAt) # {}
        THEN /\ resp' = [op |-> "track", status |-> 400,
                         message |-> DuplicateMessage]
             /\ UNCHANGED tracking
        ELSE IF err # "ok"
        THEN /\ resp' = [op |-> "track", status |-> 500, message |-> err]
             /\ UNCHANGED tracking
        ELSE /\ tracking' = Append(tracking, row)
             /\ resp' = [op |-> "track", status |-> 201, message |-> ""]
  /\ UNCHANGED <<now, tz, users, habits, goals, refreshTokens, nextId,
                 issued, retired, reqs>>

\* A habit id that no habit has (ids are never reused).
MissingHabitId == nextId.habit + 1

\* The request without completedAt in the body, by any of the callers. The
\* route does not look the habit up, so the caller need not own it.
TrackNow(callers) ==
  /\ Len(tracking) < MaxRows
  /\ \E u \in callers, h \in HabitIds \cup {MissingHabitId} :
       LogCompletion(u, h, now)

\* The request with a client-chosen completedAt, by the habit's owner.
TrackAt ==
  \E h \in habits, t \in TimePoints : LogCompletion(h.userId, h.id, t)

\* ------------------------------------------------------------------------
\* AuthService and the /auth routes
\* ------------------------------------------------------------------------
Emails == {"a@b.com", "c@d.com"}

\* A password is its sequence of code points. SignupSchema and LoginSchema
\* admit 8 to 72 characters.
Chars(n, codePoint) == [i \in 1..n |-> codePoint]

Password1 == Chars(PASSWORD_MIN_LENGTH, 97)
WrongPassword == Chars(PASSWORD_MIN_LENGTH, 98)
LongPassword1 ==
  Chars(PASSWORD_MAX_LENGTH \div 2, 233) \o Chars(PASSWORD_MAX_LENGTH \div 2, 97)
LongPassword2 ==
  Chars(PASSWORD_MAX_LENGTH \div 2, 233) \o Chars(PASSWORD_MAX_LENGTH \div 2, 98)

Passwords ==
  {p \in {Password1, WrongPassword, LongPassword1, LongPassword2} :
     PASSWORD_MIN_LENGTH <= Len(p) /\ Len(p) <= PASSWORD_MAX_LENGTH}

\* The UTF-8 encoding bcrypt works on: each code point gives 1 to 4 bytes,
\* written here as <<codePoint, k>> for its k-th byte.
utf8Length(codePoint) ==
  IF codePoint < 128 THEN 1
  ELSE IF codePoint < 2048 THEN 2
  ELSE IF codePoint < 65536 THEN 3
  ELSE 4

RECURSIVE stringToBytes(_)
stringToBytes(str) ==
  IF str = <<>> THEN <<>>
  ELSE [k \in 1..utf8Length(Head(str)) |-> <<Head(str), k>>]
       \o stringToBytes(Tail(str))

\* bcrypt: the digest is not the password, it depends on the first 72
\* bytes of the password only, and compare recomputes it.
bcryptDigest ==
  [password \in Passwords |->
     <<"$2b$10$",
       SubSeq(stringToBytes(password), 1,
              Min(Len(stringToBytes(password)), BCRYPT_MAX_BYTES))>>]

bcryptHash(password) == bcryptDigest[password]

bcryptCompare(password, digest) == digest = bcryptHash(password)

\* fastify.jwt.sign({userId}, {expiresIn: "7d"}): an HS256 token is a
\* function of its payload {userId, iat, exp}, and iat is the clock in whole
\* seconds.
signRefresh(userId, t) ==
  [userId |-> userId, iat |-> t \div MS_PER_SECOND,
   exp |-> t \div MS_PER_SECOND + REFRESH_TTL_S]

\* A string that is not a token signed by this server.
Garbage == [userId |-> 0, iat |-> 0, exp |-> 0]

\* fastify.jwt.verify: the signature and the exp claim.
jwtVerify(token, t) == token # Garbage /\ t < token.exp * MS_PER_SECOND

NoUser == 0

\* validateRefreshToken: the userId it returns (NoUser for null) and the
\* store it leaves.
validateRefreshTokenNoExpiry(store, token, t) ==
  IF \A r \in store : r.token # token THEN NoUser
  ELSE (CHOOSE r \in store : r.token = token).userId

validateRefreshToken(store, token, t) ==
  IF \A r \in store : r.token # token THEN NoUser
  ELSE LET refreshToken == CHOOSE r \in store : r.token = token
       IN IF refreshToken.expiresAt < t THEN NoUser
          ELSE refreshToken.userId

validateRefreshTokenStore(store, token, t) ==
  {r \in store : ~(r.token = token /\ r.expiresAt < t)}

\* prisma.refreshToken.delete({where: {token}}): P2025 when no record has
\* the token.
refreshTokenDeleteError(store, token) ==
  IF \E r \in store : r.token = token THEN "ok" ELSE "P2025"

refreshTokenDelete(store, token) == {r \in store : r.token # token}

\* revokeRefreshToken: the store it leaves, the error it raises and the
\* value it returns.
revokeRefreshTokenRethrow(store, token) ==
  [store |-> refreshTokenDelete(store, token),
   error |-> IF refreshTokenDeleteError(store, token) = "ok" THEN "none"
             ELSE refreshTokenDeleteError(store, token),
   returned |-> refreshTokenDeleteError(store, token) = "ok"]

revokeRefreshTokenResult(store, token) ==
  IF refreshTokenDeleteError(store, token) = "ok"
  THEN [store |-> refreshTokenDelete(store, token), error |-> "none",
        returned |-> TRUE]
  ELSE [store |-> store, error |-> "none", returned |-> FALSE]

revokeRefreshToken(store, token) ==
  revokeRefreshTokenResult(store, token).store

\* storeRefreshToken: prisma.refreshToken.create under the unique index
\* RefreshToken_token_key.
storeRefreshTokenError(store, token) ==
  IF \E r \in store : r.token = token THEN "P2002" ELSE "ok"

storeRefreshToken(store, userId, token, expiresAt) ==
  store \cup {[token |-> token, userId |-> userId, expiresAt |-> expiresAt]}

Retire(store, token, how) ==
  IF \E r \in store : r.token = token
  THEN retired \cup {[token |-> token, how |-> how]}
  ELSE retired

\* prisma.user.create under the unique index User_email_key.
userCreateErrorNone(us, email) == "ok"

userCreateError(us, email) ==
  IF \E u \in us : u.email = email THEN "P2002" ELSE "ok"

\* select: {id, email, name, createdAt, updatedAt}: the user without the
\* password column.
selectUser(u) == [id |-> u.id, email |-> u.email]

\* POST /auth/signup
Signup(email, password) ==
  /\ IF userCreateError(users, email) # "ok"
     THEN /\ resp' = [op |-> "signup", status |-> 400,
                      message |-> "User with this email already exists"]
          /\ UNCHANGED <<users, nextId, refreshTokens, issued>>
     ELSE LET id == nextId.user + 1
              refreshToken == signRefresh(id, now)
          IN /\ users' = users \cup
                  {[id |-> id, email |-> email,
                    password |-> bcryptHash(password)]}
             /\ nextId' = [nextId EXCEPT !.user = id]
             /\ refreshTokens' =
                  storeRefreshToken(refreshTokens, id, refreshToken,
                                    now + REFRESH_TTL_MS)
             /\ issued' = issued \cup {refreshToken}
             /\ resp' = [op |-> "signup", status |-> 201, message |-> "",
                         user |-> [id |-> id, email |-> email]]
  /\ UNCHANGED <<now, tz, habits, tracking, goals, retired, reqs>>

\* validateCredentials: the user, or {} for null.
validateCredentials(email, password) ==
  {selectUser(u) : u \in {q \in users : /\ q.email = email
                                        /\ bcryptCompare(password,
                                                         q.password)}}

\* The reply of POST /auth/login when validateCredentials returns null.
loginRejectedLeaky(email) ==
  IF \E u \in users : u.email = email
  THEN [op |-> "login", status |-> 401,
        message |-> "Invalid email or password"]
  ELSE [op |-> "login", status |-> 404, message |-> "User not found"]

loginRejected(email) ==
  [op |-> "login", status |-> 401, message |-> "Invalid email or password"]

\* POST /auth/login
Login(email, password) ==
  /\ IF validateCredentials(email, password) = {}
     THEN /\ resp' = loginRejected(email)
          /\ UNCHANGED <<refreshTokens, issued>>
     ELSE LET user == CHOOSE u \in validateCredentials(email, password) : TRUE
              refreshToken == signRefresh(user.id, now)
          IN IF storeRefreshTokenError(refreshTokens, refreshToken) # "ok"
             THEN /\ resp' = [op |-> "login", status |-> 500,
                              message |-> "P2002"]
                  /\ UNCHANGED <<refreshTokens, issued>>
             ELSE /\ refreshTokens' =
                       storeRefreshToken(refreshTokens, user.id, refreshToken,
                                         now + REFRESH_TTL_MS)
                  /\ issued' = issued \cup {refreshToken}
                  /\ resp' = [op |-> "login", status |-> 200, message |-> ""]
  /\ UNCHANGED <<now, tz, users, habits, tracking, goals, nextId, retired,
                 reqs>>

\* POST /auth/refresh presenting refreshToken, handled without interleaving.
Refresh(refreshToken) ==
  /\ LET userId == validateRefreshToken(refreshTokens, refreshToken, now)
         validated == validateRefreshTokenStore(refreshTokens, refreshToken,
                                                now)
         revoked == revokeRefreshToken(validated, refreshToken)
         newRefreshToken == signRefresh(userId, now)
     IN IF ~jwtVerify(refreshToken, now)
        THEN /\ resp' = [op |-> "refresh", status |-> 401,
                         message |-> "Invalid refresh token"]
             /\ UNCHANGED <<refreshTokens, issued, retired>>
        ELSE IF userId = NoUser \/ userId # refreshToken.userId
        THEN /\ resp' = [op |-> "refresh", status |-> 401,
                         message |-> "Invalid or revoked refresh token"]
             /\ refreshTokens' = validated
             /\ retired' = IF validated = refreshTokens THEN retired
                           ELSE Retire(refreshTokens, refreshToken, "expired")
             /\ UNCHANGED issued
        ELSE IF \A u \in users : u.id # userId
        THEN /\ resp' = [op |-> "refresh", status |-> 401,
                         message |-> "User not found"]
             /\ UNCHANGED <<refreshTokens, issued, retired>>
        ELSE IF storeRefreshTokenError(revoked, newRefreshToken) # "ok"
        THEN /\ resp' = [op |-> "refresh", status |-> 401,
                         message |-> "Invalid refresh token"]
             /\ refreshTokens' = revoked
             /\ retired' = Retire(validated, refreshToken, "revoked")
             /\ UNCHANGED issued
        ELSE /\ refreshTokens' =
                  storeRefreshToken(revoked, userId, newRefreshToken,
                                    now + REFRESH_TTL_MS)
             /\ issued' = issued \cup {newRefreshToken}
             /\ retired' = Retire(validated, refreshToken, "rotated")
             /\ resp' = [op |-> "refresh", status |-> 200, message |-> ""]
  /\ UNCHANGED <<now, tz, users, habits, tracking, goals, nextId, reqs>>

\* POST /auth/logout by an authenticated user, with any token in the body.
Logout(refreshToken) ==
  /\ users # {}
  /\ refreshTokens' = revokeRefreshToken(refreshTokens, refreshToken)
  /\ retired' = Retire(refreshTokens, refreshToken, "revoked")
  /\ resp' = [op |-> "logout", status |-> 204, message |-> ""]
  /\ UNCHANGED <<now, tz, users, habits, tracking, goals, nextId, issued,
                 reqs>>

\* ------------------------------------------------------------------------
\* POST /auth/refresh as it runs among other requests: one step for the
\* synchronous start of the handler and one for each awaited store
\* operation together with the code that follows it up to the next await.
\* ------------------------------------------------------------------------
Done(i, status, message) ==
  [reqs EXCEPT ![i].pc = "done", ![i].status = status,
               ![i].message = message]

InFlight(i) == reqs[i].pc # "done"

\* The handler is entered: fastify.jwt.verify(refreshToken).
RefreshStart(refreshToken) ==
  /\ Len(reqs) < MaxRequests
  /\ reqs' = Append(reqs,
       [op |-> "refresh",
        pc |-> IF jwtVerify(refreshToken, now) THEN "findToken" ELSE "done",
        token |-> refreshToken,
        userId |-> NoUser,
        newToken |-> Garbage,
        expiresAt |-> 0,
        status |-> IF jwtVerify(refreshToken, now) THEN 0 ELSE 401,
        message |-> IF jwtVerify(refreshToken, now) THEN ""
                    ELSE "Invalid refresh token",
        validAtStart |->
          validateRefreshToken(refreshTokens, refreshToken, now) # NoUser,
        overlaps |-> \E i \in 1..Len(reqs) :
                       InFlight(i) /\ reqs[i].token = refreshToken])
  /\ UNCHANGED <<now, tz, users, habits, tracking, goals, refreshTokens,
                 nextId, issued, retired, resp>>

\* validateRefreshToken: findUnique, then the expiry test.
RefreshFindToken(i) ==
  /\ reqs[i].pc = "findToken"
  /\ LET found == {r \in refreshTokens : r.token = reqs[i].token}
     IN reqs' =
          IF found = {}
          THEN Done(i, 401, "Invalid or revoked refresh token")
          ELSE LET refreshToken == CHOOSE r \in found : TRUE
               IN IF refreshToken.expiresAt < now
                  THEN [reqs EXCEPT ![i].pc = "deleteExpired"]
                  ELSE IF refreshToken.userId # reqs[i].token.userId
                  THEN Done(i, 401, "Invalid or revoked refresh token")
                  ELSE [reqs EXCEPT ![i].pc = "getUser",
                                    ![i].userId = refreshToken.userId]
  /\ UNCHANGED <<now, tz, users, habits, tracking, goals, refreshTokens,
                 nextId, issued, retired, resp>>

\* validateRefreshToken: delete of the expired record (P2025 when it is
\* gone, caught by the route).
RefreshDeleteExpired(i) ==
  /\ reqs[i].pc = "deleteExpired"
  /\ IF \E r \in refreshTokens : r.token = reqs[i].token
     THEN /\ refreshTokens' = revokeRefreshToken(refreshTokens, reqs[i].token)
          /\ retired' = Retire(refreshTokens, reqs[i].token, "expired")
          /\ reqs' = Done(i, 401, "Invalid or revoked refresh token")
     ELSE /\ reqs' = Done(i, 401, "Invalid refresh token")
          /\ UNCHANGED <<refreshTokens, retired>>
  /\ UNCHANGED <<now, tz, users, habits, tracking, goals, nextId, issued,
                 resp>>

\* getUserById
RefreshGetUser(i) ==
  /\ reqs[i].pc = "getUser"
  /\ reqs' = IF \E u \in users : u.id = reqs[i].userId
             THEN [reqs EXCEPT ![i].pc = "revoke"]
             ELSE Done(i, 401, "User not found")
  /\ UNCHANGED <<now, tz, users, habits, tracking, goals, refreshTokens,
                 nextId, issued, retired, resp>>

\* revokeRefreshToken (a missing record is caught), then both tokens are
\* signed and expiresAt is computed.
RefreshRevoke(i) ==
  /\ reqs[i].pc = "revoke"
  /\ refreshTokens' = revokeRefreshToken(refreshTokens, reqs[i].token)
  /\ retired' = Retire(refreshTokens, reqs[i].token, "rotated")
  /\ reqs' = [reqs EXCEPT ![i].pc = "store",
                          ![i].newToken = signRefresh(reqs[i].userId, now),
                          ![i].expiresAt = now + REFRESH_TTL_MS]
  /\ UNCHANGED <<now, tz, users, habits, tracking, goals, nextId, issued,
                 resp>>

\* storeRefreshToken (P2002 is caught by the route), then the reply.
RefreshStore(i) ==
  /\ reqs[i].pc = "store"
  /\ IF storeRefreshTokenError(refreshTokens, reqs[i].newToken) # "ok"
     THEN /\ reqs' = Done(i, 401, "Invalid refresh token")
          /\ UNCHANGED <<refreshTokens, issued>>
     ELSE /\ refreshTokens' =
               storeRefreshToken(refreshTokens, reqs[i].userId,
                                 reqs[i].newToken, reqs[i].expiresAt)
          /\ issued' = issued \cup {reqs[i].newToken}
          /\ reqs' = Done(i, 200, "")
  /\ UNCHANGED <<now, tz, users, habits, tracking, goals, nextId, retired,
                 resp>>

\* ------------------------------------------------------------------------
\* POST /habits/:habitId/track as it runs among other requests.
\* ------------------------------------------------------------------------
LogStart(u, habitId, completedAt) ==
  /\ Len(reqs) < MaxRequests
  /\ u \in UserIds
  /\ reqs' = Append(reqs,
       [op |-> "track", pc |-> "existingTracking", userId |-> u,
        habitId |-> habitId, completedAt |-> completedAt, streak |-> 0,
        status |-> 0, message |-> ""])
  /\ UNCHANGED <<now, tz, users, habits, tracking, goals, refreshTokens,
                 nextId, issued, retired, resp>>

LogExistingTracking(i) ==
  /\ reqs[i].pc = "existingTracking"
  /\ reqs' =
       IF existingTracking(Rows, reqs[i].habitId, reqs[i].completedAt) # {}
       THEN Done(i, 400, DuplicateMessage)
       ELSE [reqs EXCEPT ![i].pc = "lastTracking"]
  /\ UNCHANGED <<now, tz, users, habits, tracking, goals, refreshTokens,
                 nextId, issued, retired, resp>>

LogLastTracking(i) ==
  /\ reqs[i].pc = "lastTracking"
  /\ reqs' = [reqs EXCEPT
       ![i].pc = "create",
       ![i].streak = computeStreak(Rows, reqs[i].habitId,
                                   reqs[i].completedAt)]
  /\ UNCHANGED <<now, tz, users, habits, tracking, goals, refreshTokens,
                 nextId, issued, retired, resp>>

\* prisma.habitTracking.create; the route rethrows P2002 and P2003 (500).
LogCreate(i) ==
  /\ reqs[i].pc = "create"
  /\ LET row == [habitId |-> reqs[i].habitId, userId |-> reqs[i].userId,
                 completedAt |-> reqs[i].completedAt,
                 streak |-> reqs[i].streak]
         err == trackingCreateError(Rows, habits, row)
     IN IF err # "ok"
        THEN /\ reqs' = Done(i, 500, err)
             /\ UNCHANGED tracking
        ELSE /\ tracking' = Append(tracking, row)
             /\ reqs' = Done(i, 201, "")
  /\ UNCHANGED <<now, tz, users, habits, goals, refreshTokens, nextId,
                 issued, retired, resp>>

\* ------------------------------------------------------------------------
\* HabitService: trackedToday
\* ------------------------------------------------------------------------
isTrackedToday(habitId, userId) ==
  \E r \in Rows : /\ r.habitId = habitId
                  /\ r.userId = userId
                  /\ InRange(r.completedAt, localDayBounds(now, tz))

\* The habit ids of today's tracking rows of the user (trackedHabitIds).
trackedHabitIdsAnyUser(userId) ==
  {r.habitId : r \in {q \in Rows :
                        InRange(q.completedAt, localDayBounds(now, tz))}}

trackedHabitIds(userId) ==
  {r.habitId : r \in {q \in Rows :
                        /\ q.userId = userId
                        /\ InRange(q.completedAt, localDayBounds(now, tz))}}

\* isActive is "true", "false" or "undefined" (no filter).
findAll(userId, isActive) ==
  {[habit |-> h, trackedToday |-> h.id \in trackedHabitIds(userId)] :
     h \in {g \in habits :
              /\ g.userId = userId
              /\ (isActive = "undefined"
                  \/ g.isActive = (isActive = "true"))}}

Null == [habit |-> "null", trackedToday |-> FALSE]

findById(id) ==
  IF \E h \in habits : h.id = id
  THEN LET habit == CHOOSE h \in habits : h.id = id
       IN [habit |-> habit,
           trackedToday |-> isTrackedToday(habit.id, habit.userId)]
  ELSE Null

\* ------------------------------------------------------------------------
\* GoalService
\* ------------------------------------------------------------------------
GoalTypes == {"weekly", "monthly", "yearly"}

goalTypeMap(goalType) ==
  CASE goalType = "weekly" -> "WEEKLY"
    [] goalType = "monthly" -> "MONTHLY"
    [] goalType = "yearly" -> "YEARLY"
    [] OTHER -> "undefined"

\* POST /habits/:habitId/goals by the authenticated user u:
\* prisma.habitGoal.create under HabitGoal_habitId_fkey (P2003, rethrown)
\* and HabitGoal_habitId_goalType_key (P2002, answered 400).
GoalCreate(u, habitId, targetFrequency, goalType) ==
  /\ u \in UserIds
  /\ IF habitId \notin HabitIds
     THEN /\ resp' = [op |-> "goalCreate", status |-> 500,
                      message |-> "P2003"]
          /\ UNCHANGED <<goals, nextId>>
     ELSE IF \E g \in goals : /\ g.habitId = habitId
                              /\ g.goalType = goalTypeMap(goalType)
     THEN /\ resp' = [op |-> "goalCreate", status |-> 400,
                      message |-> "Goal for this type already exists"]
          /\ UNCHANGED <<goals, nextId>>
     ELSE /\ goals' = goals \cup
               {[id |-> nextId.goal + 1, habitId |-> habitId, userId |-> u,
                 targetFrequency |-> targetFrequency,
                 goalType |-> goalTypeMap(goalType)]}
          /\ nextId' = [nextId EXCEPT !.goal = @ + 1]
          /\ resp' = [op |-> "goalCreate", status |-> 201, message |-> ""]
  /\ UNCHANGED <<now, tz, users, habits, tracking, refreshTokens, issued,
                 retired, reqs>>

\* findFirst({where: {habitId, goalType}}): a goalType of undefined puts no
\* condition on the column.
findByHabitAndGoalType(habitId, goalType) ==
  {g \in goals : /\ g.habitId = habitId
                 /\ (goalTypeMap(goalType) = "undefined"
                     \/ g.goalType = goalTypeMap(goalType))}

\* The local calendar of the server, for instants of January 1970 and
\* later in that year: the local day number since 1970-01-01, its day of
\* the week (0 = Sunday; 1970-01-01 was a Thursday) and the first day of
\* its month and of its year.
localDay(t) == (t + tz) \div MS_PER_DAY

getDay(t) == (localDay(t) + 4) % 7

MonthStarts == <<0, 31, 59, 90, 120, 151, 181, 212, 243, 273, 304, 334>>

monthStartDay(t) ==
  LET m == CHOOSE i \in 1..12 :
             /\ MonthStarts[i] <= localDay(t)
             /\ (i = 12 \/ localDay(t) < MonthStarts[i + 1])
  IN MonthStarts[m]

periodStart(goalType) ==
  IF goalType = "weekly"
  THEN LET dayOfWeek == getDay(now)
           daysDiff == IF dayOfWeek = 0 THEN 6 ELSE dayOfWeek - 1
       IN now - daysDiff * MS_PER_DAY
  ELSE IF goalType = "monthly"
  THEN monthStartDay(now) * MS_PER_DAY - tz
  ELSE 0 - tz

\* Math.round(x) for x = num / den >= 0: the nearest integer, halves up.
\* Exact for the double arithmetic of the source while den < 40.
MathRound(num, den) == (2 * num + den) \div (2 * den)

percentageOf(completions, targetFrequency) ==
  MathRound(completions * 100, targetFrequency)

completionsIn(habitId, from, to) ==
  Cardinality({r \in Rows : /\ r.habitId = habitId
                            /\ from <= r.completedAt
                            /\ r.completedAt <= to})

NoProgress == [goal |-> "null", completions |-> 0, targetFrequency |-> 0,
               percentage |-> 0]

getProgressUncapped(habitId, goalType) ==
  IF findByHabitAndGoalType(habitId, goalType) = {} THEN NoProgress
  ELSE LET goal == CHOOSE g \in findByHabitAndGoalType(habitId, goalType) :
                     \A q \in findByHabitAndGoalType(habitId, goalType) :
                       g.id <= q.id
           completions == completionsIn(habitId, periodStart(goalType), now)
       IN [goal |-> goal,
           completions |-> completions,
           targetFrequency |-> goal.targetFrequency,
           percentage |-> percentageOf(completions, goal.targetFrequency)]

getProgress(habitId, goalType) ==
  IF findByHabitAndGoalType(habitId, goalType) = {} THEN NoProgress
  ELSE LET goal == CHOOSE g \in findByHabitAndGoalType(habitId, goalType) :
                     \A q \in findByHabitAndGoalType(habitId, goalType) :
                       g.id <= q.id
           completions == completionsIn(habitId, periodStart(goalType), now)
       IN [goal |-> goal,
           completions |-> completions,
           targetFrequency |-> goal.targetFrequency,
           percentage |->
             Min(percentageOf(completions, goal.targetFrequency), 100)]

\* ------------------------------------------------------------------------
\* The day-boundary functions applied to chosen instants
\* ------------------------------------------------------------------------
\* Offsets into a tracking day: its first two milliseconds, the
\* milliseconds around UTC midnight, and its last millisecond.
ProbeOffsets ==
  {0, 1, VNT_OFFSET_MS - 1, VNT_OFFSET_MS, MS_PER_DAY - 1}

Probes == [day : (FirstDay - 2)..MaxDay, off : ProbeOffsets]

ProbeTime(p) == TimeOf(p.day, p.off)

ApplyDayFunctions ==
  /\ resp = NoResp
  /\ resp' = [op |-> "day", status |-> 200,
              index1 |-> getVntDayIndex(ProbeTime(reqs[1])),
              index2 |-> getVntDayIndex(ProbeTime(reqs[2])),
              bounds1 |-> getVntDayBounds(ProbeTime(reqs[1]))]
  /\ UNCHANGED <<now, tz, users, habits, tracking, goals, refreshTokens,
                 nextId, issued, retired, reqs>>

\* ------------------------------------------------------------------------
\* Specifications
\* ------------------------------------------------------------------------
\* Two registered users, logged out.
SeedUsers ==
  {[id |-> 1, email |-> "a@b.com", password |-> bcryptHash(Password1)],
   [id |-> 2, email |-> "c@d.com", password |-> bcryptHash(Password1)]}

Habit(id, u, name) ==
  [id |-> id, userId |-> u, name |-> name, isActive |-> TRUE]

SeedInit(hs) ==
  /\ now = TimeOf(FirstDay, 0)
  /\ tz \in ServerZones
  /\ users = SeedUsers
  /\ habits = hs
  /\ tracking = <<>>
  /\ goals = {}
  /\ refreshTokens = {}
  /\ nextId = [user |-> Cardinality(SeedUsers), habit |-> Cardinality(hs),
               goal |-> 0]
  /\ issued = {}
  /\ retired = {}
  /\ resp = NoResp
  /\ reqs = <<>>

\* Completions of one habit at client-chosen instants, in any order.
StreakInit == SeedInit({Habit(1, 1, "Exercise")})

StreakNext == Tick(TimePoints) \/ TrackAt

StreakSpec == StreakInit /\ [][StreakNext]_vars

\* One user's three habits, completions logged at the current instant by
\* either user.
TodayInit ==
  SeedInit({Habit(1, 1, "Exercise"), Habit(2, 1, "Read"),
            Habit(3, 1, "Meditate")})

TodayNext == Tick(TimePoints) \/ TrackNow(UserIds)

TodaySpec == TodayInit /\ [][TodayNext]_vars

\* One habit with goals set by its owner and completions logged by its
\* owner at the current instant.
GoalInit == SeedInit({Habit(1, 1, "Exercise")})

\* Target frequencies of the goals created: a target the completions
\* exceed, one whose percentages are rounded, and the largest.
GoalTargets == {2, 3, MaxTarget}

GoalNext ==
  \/ Tick(TimePoints)
  \/ TrackNow({h.userId : h \in habits})
  \/ /\ Cardinality(goals) < MaxGoals
     /\ \E h \in habits, f \in GoalTargets, g \in GoalTypes :
          GoalCreate(h.userId, h.id, f, g)

GoalSpec == GoalInit /\ [][GoalNext]_vars

\* getVntDayIndex and getVntDayBounds on every pair of probe instants.
DayInit ==
  /\ now = TimeOf(FirstDay, 0)
  /\ tz \in ServerZones
  /\ users = {}
  /\ habits = {}
  /\ tracking = <<>>
  /\ goals = {}
  /\ refreshTokens = {}
  /\ nextId = [user |-> 0, habit |-> 0, goal |-> 0]
  /\ issued = {}
  /\ retired = {}
  /\ resp = NoResp
  /\ reqs \in [1..2 -> Probes]

DayNext == ApplyDayFunctions

DaySpec == DayInit /\ [][DayNext]_vars

\* The /auth routes from an empty store. The clock is observed in the same
\* second, in the next second, and when and after the refresh tokens of
\* the first second expire.
AuthPoints ==
  {TimeOf(FirstDay, 1), TimeOf(FirstDay, MS_PER_SECOND),
   TimeOf(FirstDay, REFRESH_TTL_MS),
   TimeOf(FirstDay, REFRESH_TTL_MS + MS_PER_SECOND)}

\* The /auth routes never read the server's time zone; it is fixed to UTC.
AuthInit ==
  /\ now = TimeOf(FirstDay, 0)
  /\ tz = 0
  /\ users = {}
  /\ habits = {}
  /\ tracking = <<>>
  /\ goals = {}
  /\ refreshTokens = {}
  /\ nextId = [user |-> 0, habit |-> 0, goal |-> 0]
  /\ issued = {}
  /\ retired = {}
  /\ resp = NoResp
  /\ reqs = <<>>

AuthNext ==
  \/ Tick(AuthPoints)
  \/ \E e \in Emails : Signup(e, Password1)
  \/ /\ Cardinality(issued) < MaxTokens
     /\ \E e \in Emails, p \in Passwords : Login(e, p)
  \/ /\ Cardinality(issued) < MaxTokens
     /\ \E t \in issued \cup {Garbage} : Refresh(t)
  \/ \E t \in issued \cup {Garbage} : Logout(t)

AuthSpec == AuthInit /\ [][AuthNext]_vars

\* /auth/refresh requests running among each other after signups.
RefreshRaceNext ==
  \/ Tick(AuthPoints)
  \/ /\ reqs = <<>>
     /\ \E e \in Emails : Signup(e, Password1)
  \/ \E t \in issued : RefreshStart(t)
  \/ \E i \in 1..Len(reqs) :
       \/ RefreshFindToken(i)
       \/ RefreshDeleteExpired(i)
       \/ RefreshGetUser(i)
       \/ RefreshRevoke(i)
       \/ RefreshStore(i)

RefreshRaceSpec == AuthInit /\ [][RefreshRaceNext]_vars

\* Completions of one habit requested by its owner for instants of the
\* first two tracking days, running among each other.
RacePoints ==
  {TimeOf(d, o) : d \in {FirstDay, FirstDay + 1}, o \in DayOffsets}

LogRaceNext ==
  \/ \E h \in habits, t \in RacePoints : LogStart(h.userId, h.id, t)
  \/ \E i \in 1..Len(reqs) :
       \/ LogExistingTracking(i)
       \/ LogLastTracking(i)
       \/ LogCreate(i)

LogRaceSpec == StreakInit /\ [][LogRaceNext]_vars

\* ------------------------------------------------------------------------
\* The tracking day of the specification, stated without the service's
\* arithmetic: day d is the closed range of instants from TimeOf(d, 0) to
\* TimeOf(d, MS_PER_DAY - 1).
\* ------------------------------------------------------------------------
InTrackingDay(t, d) == TimeOf(d, 0) <= t /\ t <= TimeOf(d, MS_PER_DAY - 1)

TrackingDay(t) == CHOOSE d \in (FirstDay - 2)..(MaxDay + 2) : InTrackingDay(t, d)

SameTrackingDay(t1, t2) ==
  \E d \in (FirstDay - 2)..(MaxDay + 2) :
    InTrackingDay(t1, d) /\ InTrackingDay(t2, d)

\* The rows of a habit in the order they were logged.
HabitLog(h) == SelectSeq(tracking, LAMBDA r : r.habitId = h)

\* ------------------------------------------------------------------------
\* C1. Sequential logCompletion calls on a habit: a call whose completedAt
\* falls in a tracking day that already has a row of the habit fails with
\* the duplicate error and leaves HabitTracking unchanged, every other call
\* on an existing habit stores exactly one row; so no habit ever has two
\* rows in one tracking day.
\* ------------------------------------------------------------------------
OneRowPerDay ==
  \A i, j \in 1..Len(tracking) :
    (/\ i # j
     /\ tracking[i].habitId = tracking[j].habitId)
    => ~SameTrackingDay(tracking[i].completedAt, tracking[j].completedAt)

LogOutcome(h, t) ==
  IF \E r \in Rows : r.habitId = h /\ SameTrackingDay(r.completedAt, t)
  THEN /\ resp'.status = 400
       /\ resp'.message = DuplicateMessage
       /\ tracking' = tracking
  ELSE /\ resp'.status = 201
       /\ Len(tracking') = Len(tracking) + 1
       /\ SubSeq(tracking', 1, Len(tracking)) = tracking
       /\ tracking'[Len(tracking')].habitId = h
       /\ tracking'[Len(tracking')].completedAt = t

C1_OncePerTrackingDay ==
  /\ []OneRowPerDay
  /\ [][\A h \in habits, t \in TimePoints :
          LogCompletion(h.userId, h.id, t) => LogOutcome(h.id, t)]_vars

\* A second call in a day that has a row with another raw timestamp was
\* rejected.
C1_Witness ==
  /\ resp.op = "track"
  /\ resp.status = 400
  /\ resp.message = DuplicateMessage
  /\ \E r \in Rows : r.completedAt = TimeOf(FirstDay, MS_PER_DAY - 1)

\* ------------------------------------------------------------------------
\* C2. When the completions of a habit were logged in chronological order
\* of tracking days, each stored streak is the length of the run of
\* consecutive tracking days that ends at its row: 1, 2, ..., N on N
\* consecutive days, and 1 again after a skipped day.
\* ------------------------------------------------------------------------
Chronological(s) ==
  \A i \in 1..(Len(s) - 1) :
    TrackingDay(s[i].completedAt) < TrackingDay(s[i + 1].completedAt)

RECURSIVE RunLength(_, _)
RunLength(s, i) ==
  IF i = 1 THEN 1
  ELSE IF TrackingDay(s[i].completedAt)
          = TrackingDay(s[i - 1].completedAt) + 1
       THEN RunLength(s, i - 1) + 1
       ELSE 1

C2_StreakSequence ==
  \A h \in HabitIds :
    Chronological(HabitLog(h))
    => \A i \in 1..Len(HabitLog(h)) :
         HabitLog(h)[i].streak = RunLength(HabitLog(h), i)

\* Day 1 -> 1, day 2 -> 2, day 4 -> 1.
C2_Witness ==
  \E h \in HabitIds :
    /\ Len(HabitLog(h)) = 3
    /\ TrackingDay(HabitLog(h)[1].completedAt) = FirstDay
    /\ TrackingDay(HabitLog(h)[2].completedAt) = FirstDay + 1
    /\ TrackingDay(HabitLog(h)[3].completedAt) = FirstDay + 3
    /\ HabitLog(h)[1].streak = 1
    /\ HabitLog(h)[2].streak = 2
    /\ HabitLog(h)[3].streak = 1

\* ------------------------------------------------------------------------
\* C7. getVntDayIndex maps every instant of tracking day d to d: two
\* instants of one tracking day get the same index, and the last
\* millisecond of a day and the first millisecond of the next get indices
\* that differ by exactly 1.
\* ------------------------------------------------------------------------
C7_DayIndex ==
  resp.op = "day" =>
    /\ resp.index1 = reqs[1].day
    /\ (reqs[1].day = reqs[2].day => resp.index1 = resp.index2)
    /\ (/\ reqs[1].off = MS_PER_DAY - 1
        /\ reqs[2].off = 0
        /\ reqs[2].day = reqs[1].day + 1) => resp.index2 - resp.index1 = 1

\* The indices of the last millisecond of a day and of the first
\* millisecond of the next were computed.
C7_Witness ==
  /\ resp.op = "day"
  /\ reqs[1].off = MS_PER_DAY - 1
  /\ reqs[2].off = 0
  /\ reqs[2].day = reqs[1].day + 1
  /\ resp.index2 = resp.index1 + 1

\* ------------------------------------------------------------------------
\* C8. trackedToday of a habit is true exactly when a tracking row of the
\* habit logged by its owner has the same dayIndex (+7h) as the current
\* instant.
\* ------------------------------------------------------------------------
C8_TrackedTodayIsTrackingDay ==
  \A h \in habits :
    findById(h.id).trackedToday
    <=> \E r \in Rows : /\ r.habitId = h.id
                        /\ r.userId = h.userId
                        /\ getVntDayIndex(r.completedAt) = getVntDayIndex(now)

ProgressLaw(p, g) ==
  /\ p.goal = g
  /\ p.targetFrequency = g.targetFrequency
  /\ p.percentage <= 100
  /\ IF 200 * p.completions + g.targetFrequency
        >= 2 * g.targetFrequency * 100
     THEN p.percentage = 100
     ELSE /\ 2 * g.targetFrequency * p.percentage
             <= 200 * p.completions + g.targetFrequency
          /\ 200 * p.completions + g.targetFrequency
             < 2 * g.targetFrequency * (p.percentage + 1)

RotatedOut == {r.token : r \in {q \in retired : q.how = "rotated"}}

C3_RotationSingleUse ==
  [][\A t \in RotatedOut :
       Refresh(t) => (resp'.status = 401 /\ issued' = issued
                      /\ refreshTokens' = refreshTokens)]_vars

\* ------------------------------------------------------------------------
\* C4. A refresh token that is not in the store does not validate, and a
\* token that was rotated out, revoked or deleted on expiry never validates
\* again.
\* ------------------------------------------------------------------------
C4_RetiredIsTerminal ==
  /\ \A t \in issued \cup {Garbage} :
       (\A r \in refreshTokens : r.token # t)
       => validateRefreshToken(refreshTokens, t, now) = NoUser
  /\ \A q \in retired :
       validateRefreshToken(refreshTokens, q.token, now) = NoUser

\* ------------------------------------------------------------------------
\* C5. When /auth/refresh requests that overlap in time present the same
\* valid refresh token, exactly one of them is answered 200 and every other
\* one 401, and the store ends with exactly one new token from them.
\* ------------------------------------------------------------------------
Presenting(t) == {i \in 1..Len(reqs) : reqs[i].token = t}

C5_OneRefreshWins ==
  \A t \in issued :
    (/\ \E i \in Presenting(t) : reqs[i].overlaps
     /\ \A i \in Presenting(t) : reqs[i].validAtStart /\ ~InFlight(i))
    => /\ Cardinality({i \in Presenting(t) : reqs[i].status = 200}) = 1
       /\ \A i \in Presenting(t) : reqs[i].status \in {200, 401}
       /\ Cardinality({r \in refreshTokens :
                         \E i \in Presenting(t) :
                           /\ reqs[i].status = 200
                           /\ r.token = reqs[i].newToken}) = 1

\* ------------------------------------------------------------------------
\* C6. However logCompletion requests on a habit interleave, the habit
\* never has two rows in one tracking day, and every request on it ends
\* with 201 or with the duplicate error (400).
\* ------------------------------------------------------------------------
C6_StoreArbitrates ==
  /\ OneRowPerDay
  /\ \A i \in 1..Len(reqs) :
       ~InFlight(i) =>
         \/ reqs[i].status = 201
         \/ reqs[i].status = 400 /\ reqs[i].message = DuplicateMessage

\* ------------------------------------------------------------------------
\* GET /habits/:habitId/goals/:goalId
\* ------------------------------------------------------------------------
\* The goalId path parameter: the id of a goal as the string the schema
\* admits (format uuid), which is never a key of goalTypeMap.
goalIdParam(id) == ToString(id)

\* The handler passes request.params.goalId to getProgress as goalType.
GoalProgress(u, habitId, goalId) ==
  /\ u \in UserIds
  /\ resp' =
       IF findByHabitAndGoalType(habitId, goalIdParam(goalId)) = {}
       THEN [op |-> "goalProgress", status |-> 404,
             message |-> "Goal not found"]
       ELSE [op |-> "goalProgress", status |-> 200, message |-> "",
             body |-> getProgress(habitId, goalIdParam(goalId))]
  /\ UNCHANGED <<now, tz, users, habits, tracking, goals, refreshTokens,
                 nextId, issued, retired, reqs>>

\* One habit whose owner sets goals, logs completions at the current
\* instant and reads the progress of its goals by id.
ProgressNext ==
  \/ Tick(TimePoints)
  \/ TrackNow({h.userId : h \in habits})
  \/ /\ Cardinality(goals) < MaxGoals
     /\ \E h \in habits, g \in GoalTypes :
          GoalCreate(h.userId, h.id, MaxTarget, g)
  \/ \E h \in habits, id \in 1..(MaxGoals + 1) :
       GoalProgress(h.userId, h.id, id)

ProgressSpec == GoalInit /\ [][ProgressNext]_vars

\* ------------------------------------------------------------------------
\* C11. For a weekly goal, getProgress counts exactly the habit's rows
\* with completedAt between 00:00:00.000 (server local time) of the most
\* recent Monday and now, whatever the time of day of the call.
\* ------------------------------------------------------------------------
mondayMidnight(t) ==
  LET dayOfWeek == getDay(t)
      daysDiff == IF dayOfWeek = 0 THEN 6 ELSE dayOfWeek - 1
  IN (localDay(t) - daysDiff) * MS_PER_DAY - tz

C11_WeeklyFromMondayMidnight ==
  \A g \in goals :
    g.goalType = "WEEKLY"
    => getProgress(g.habitId, "weekly").completions
       = Cardinality({i \in 1..Len(tracking) :
                        /\ tracking[i].habitId = g.habitId
                        /\ tracking[i].completedAt >= mondayMidnight(now)
                        /\ tracking[i].completedAt <= now})

\* ------------------------------------------------------------------------
\* C12. GET /habits/:habitId/goals/:goalId answers 200 with the goal of
\* that id and habit and its completions counted over the period of the
\* goal's own goalType, and 404 "Goal not found" when the habit has no goal
\* of that id.
\* ------------------------------------------------------------------------
goalTypeKey(goalType) ==
  CASE goalType = "WEEKLY" -> "weekly"
    [] goalType = "MONTHLY" -> "monthly"
    [] goalType = "YEARLY" -> "yearly"

ProgressOutcome(habitId, goalId) ==
  LET matching == {g \in goals : g.id = goalId /\ g.habitId = habitId}
  IN IF matching = {}
     THEN /\ resp'.status = 404
          /\ resp'.message = "Goal not found"
     ELSE LET g == CHOOSE q \in matching : TRUE
          IN /\ resp'.status = 200
             /\ resp'.body.goal = g
             /\ resp'.body.completions
                = completionsIn(habitId, periodStart(goalTypeKey(g.goalType)),
                                now)

C12_ProgressOfOwnPeriod ==
  [][\A h \in habits, id \in 1..(MaxGoals + 1) :
       GoalProgress(h.userId, h.id, id) => ProgressOutcome(h.id, id)]_vars

\* ------------------------------------------------------------------------
\* Signup and login with every password
\* ------------------------------------------------------------------------
CredentialNext ==
  \/ Tick(AuthPoints)
  \/ \E e \in Emails, p \in Passwords : Signup(e, p)
  \/ /\ Cardinality(issued) < MaxTokens
     /\ \E e \in Emails, p \in Passwords : Login(e, p)

CredentialSpec == AuthInit /\ [][CredentialNext]_vars

\* ------------------------------------------------------------------------
\* C13. revokeRefreshToken twice in a row on any token: neither call raises
\* an error, the second call changes nothing, and the store is the store
\* after one call, which lacks the token and keeps every other record.
\* ------------------------------------------------------------------------
C13_RevokeIdempotent ==
  \A t \in issued \cup {Garbage} :
    LET first == revokeRefreshTokenResult(refreshTokens, t)
        second == revokeRefreshTokenResult(first.store, t)
    IN /\ first.error = "none"
       /\ second.error = "none"
       /\ second.store = first.store
       /\ ~second.returned
       /\ first.store = {r \in refreshTokens : r.token # t}

\* A logout has revoked a token that was stored, another record is still
\* in the store, and the revoked token is absent for the next call.
C13_Witness ==
  /\ resp.op = "logout"
  /\ refreshTokens # {}
  /\ \E r \in retired :
       /\ r.how = "revoked"
       /\ \A q \in refreshTokens : q.token # r.token
       /\ revokeRefreshTokenResult(refreshTokens, r.token).returned = FALSE

\* ------------------------------------------------------------------------
\* C14. validateRefreshToken returns the owning userId exactly when the
\* token is stored and its expiresAt has not passed; for an absent token it
\* returns null and leaves the store; for an expired record it returns
\* null and deletes that record only.
\* ------------------------------------------------------------------------
C14_ValidateFailsClosed ==
  \A t \in issued \cup {Garbage} :
    LET records == {r \in refreshTokens : r.token = t}
        userId == validateRefreshToken(refreshTokens, t, now)
        after == validateRefreshTokenStore(refreshTokens, t, now)
    IN /\ records = {} => userId = NoUser /\ after = refreshTokens
       /\ \A r \in records :
            IF r.expiresAt < now
            THEN userId = NoUser /\ after = refreshTokens \ {r}
            ELSE userId = r.userId /\ after = refreshTokens
       /\ userId # NoUser
          => \E r \in records : r.userId = userId /\ r.expiresAt >= now

\* A refresh request has found its record expired and deleted it, while a
\* record that has not expired is still stored.
C14_Witness ==
  /\ \E r \in retired :
       /\ r.how = "expired"
       /\ validateRefreshToken(refreshTokens, r.token, now) = NoUser
  /\ \E q \in refreshTokens :
       validateRefreshToken(refreshTokens, q.token, now) = q.userId

\* ------------------------------------------------------------------------
\* C15. After a successful signup(email, password), validateCredentials
\* (email, password) returns the user signup returned, validateCredentials
\* (email, p) returns null for every other password p, and neither result
\* has a password field.
\* ------------------------------------------------------------------------
SignupRoundTrip(email, password) ==
  resp'.status = 201
  => /\ "password" \notin DOMAIN resp'.user
     /\ validateCredentials(email, password)' = {resp'.user}
     /\ \A p \in Passwords \ {password} :
          validateCredentials(email, p)' = {}

C15_SignupLoginRoundTrip ==
  [][\A e \in Emails, p \in Passwords :
       Signup(e, p) => SignupRoundTrip(e, p)]_vars

\* ------------------------------------------------------------------------
\* C16. No two users share an email; a signup with a registered email is
\* answered 400 "User with this email already exists", creates no user and
\* stores no refresh token.
\* ------------------------------------------------------------------------
UniqueEmails ==
  \A u, v \in users : u.email = v.email => u = v

SignupConflict(email) ==
  (\E u \in users : u.email = email)
  => /\ resp'.status = 400
     /\ resp'.message = "User with this email already exists"
     /\ UNCHANGED <<users, refreshTokens, issued>>

C16_SignupConflict ==
  /\ []UniqueEmails
  /\ [][\A e \in Emails, p \in Passwords :
          Signup(e, p) => SignupConflict(e)]_vars

C16_Witness ==
  /\ resp.op = "signup"
  /\ resp.status = 400
  /\ Cardinality(users) = 1
  /\ Cardinality(refreshTokens) = 1

\* ------------------------------------------------------------------------
\* C17. A login with an unknown email and a login with a known email and a
\* wrong password are answered alike: validateCredentials returns null for
\* both, the reply is 401 with the same message, and no token is stored.
\* ------------------------------------------------------------------------
LoginFails(email, password) == validateCredentials(email, password) = {}

SameRejection ==
  \A e1, e2 \in Emails, p1, p2 \in Passwords :
    LoginFails(e1, p1) /\ LoginFails(e2, p2)
    => /\ loginRejected(e1) = loginRejected(e2)
       /\ loginRejected(e1).status = 401
       /\ loginRejected(e1).message = "Invalid email or password"

C17_LoginDoesNotRevealEmail ==
  /\ []SameRejection
  /\ [][\A e \in Emails, p \in Passwords :
          Login(e, p) /\ LoginFails(e, p)
          => /\ resp' = loginRejected(e)
             /\ UNCHANGED <<refreshTokens, issued>>]_vars

\* A login was rejected in a state where one email is registered and the
\* other is not.
C17_Witness ==
  /\ resp.op = "login"
  /\ resp.status = 401
  /\ \E e1, e2 \in Emails :
       /\ \E u \in users : u.email = e1
       /\ \A u \in users : u.email # e2
       /\ LoginFails(e1, WrongPassword)
       /\ LoginFails(e2, WrongPassword)

\* ------------------------------------------------------------------------
\* GET /habits/:habitId/streak
\* ------------------------------------------------------------------------
getStreakLastInserted(habitId) ==
  LET own == SelectSeq(tracking, LAMBDA r : r.habitId = habitId)
  IN IF own = <<>> THEN 0 ELSE own[Len(own)].streak

\* findFirst({where: {habitId}, orderBy: {completedAt: "desc"}}), then 0
\* for no row and the row's streak otherwise.
getStreak(habitId) ==
  LET own == {r \in Rows : r.habitId = habitId}
  IN IF own = {} THEN 0
     ELSE LET lastRow == CHOOSE r \in own :
                           \A q \in own : q.completedAt <= r.completedAt
          IN lastRow.streak

GetStreak(u, habitId) ==
  /\ u \in UserIds
  /\ resp' = [op |-> "streak", status |-> 200, message |-> "",
              streak |-> getStreak(habitId)]
  /\ UNCHANGED <<now, tz, users, habits, tracking, goals, refreshTokens,
                 nextId, issued, retired, reqs>>

\* One habit whose owner logs completions for any instant, in any order,
\* and reads the streak of the habit and of a habit that does not exist.
StreakReadNext ==
  \/ TrackAt
  \/ \E h \in habits, id \in HabitIds \cup {MissingHabitId} :
       GetStreak(h.userId, id)

StreakReadSpec == StreakInit /\ [][StreakReadNext]_vars

\* ------------------------------------------------------------------------
\* C18. getStreak(habitId) is 0 when the habit has no tracking row and
\* otherwise the stored streak of its row with the greatest completedAt;
\* the call changes no store.
\* ------------------------------------------------------------------------
StreakRead(habitId) ==
  /\ \A i \in 1..Len(tracking) :
       /\ tracking[i].habitId = habitId
       /\ \A j \in 1..Len(tracking) :
            tracking[j].habitId = habitId
            => tracking[j].completedAt <= tracking[i].completedAt
       => resp'.streak = tracking[i].streak
  /\ (\A i \in 1..Len(tracking) : tracking[i].habitId # habitId)
     => resp'.streak = 0
  /\ UNCHANGED <<users, habits, tracking, goals, refreshTokens>>

C18_StreakIsLastRowField ==
  [][\A h \in habits, id \in HabitIds \cup {MissingHabitId} :
       GetStreak(h.userId, id) => StreakRead(id)]_vars

\* The streak read is 2, the streak of the row latest in time, while the
\* row logged last is an earlier day with streak 1.
C18_Witness ==
  /\ resp.op = "streak"
  /\ resp.streak = 2
  /\ Len(tracking) >= 2
  /\ tracking[Len(tracking)].streak = 1
  /\ \E i \in 1..Len(tracking) :
       /\ tracking[i].completedAt > tracking[Len(tracking)].completedAt
       /\ tracking[i].streak = 2

\* ------------------------------------------------------------------------
\* PUT and DELETE /habits/:habitId/goals/:goalId
\* ------------------------------------------------------------------------
\* A field the body of an update leaves out.
NoTarget == 0
NoGoalType == "undefined"

goalUpdateErrorNoIndex(gs, id, goalType) ==
  IF \A g \in gs : g.id # id THEN "P2025" ELSE "ok"

\* prisma.habitGoal.update({where: {id}, data}): P2025 when no goal has the
\* id, P2002 under HabitGoal_habitId_goalType_key.
goalUpdateError(gs, id, goalType) ==
  IF \A g \in gs : g.id # id THEN "P2025"
  ELSE LET goal == CHOOSE g \in gs : g.id = id
       IN IF /\ goalType # NoGoalType
             /\ \E q \in gs : /\ q.id # id
                              /\ q.habitId = goal.habitId
                              /\ q.goalType = goalTypeMap(goalType)
          THEN "P2002"
          ELSE "ok"

\* GoalService.update: the fields of the body replace those of the goal.
goalUpdate(gs, id, targetFrequency, goalType) ==
  {IF g.id # id THEN g
   ELSE [g EXCEPT
           !.targetFrequency =
             IF targetFrequency = NoTarget THEN @ ELSE targetFrequency,
           !.goalType =
             IF goalType = NoGoalType THEN @ ELSE goalTypeMap(goalType)] :
   g \in gs}

\* The handlers use params.goalId only: neither params.habitId nor the
\* caller is compared with the goal.
GoalUpdate(u, habitId, goalId, targetFrequency, goalType) ==
  /\ u \in UserIds
  /\ LET error == goalUpdateError(goals, goalId, goalType)
     IN IF error = "P2025"
        THEN /\ resp' = [op |-> "goalUpdate", status |-> 404,
                         message |-> "Goal not found"]
             /\ UNCHANGED goals
        ELSE IF error # "ok"
        THEN /\ resp' = [op |-> "goalUpdate", status |-> 500,
                         message |-> error]
             /\ UNCHANGED goals
        ELSE /\ goals' = goalUpdate(goals, goalId, targetFrequency, goalType)
             /\ resp' = [op |-> "goalUpdate", status |-> 200, message |-> ""]
  /\ UNCHANGED <<now, tz, users, habits, tracking, refreshTokens, nextId,
                 issued, retired, reqs>>

GoalDelete(u, habitId, goalId) ==
  /\ u \in UserIds
  /\ IF \A g \in goals : g.id # goalId
     THEN /\ resp' = [op |-> "goalDelete", status |-> 404,
                      message |-> "Goal not found"]
          /\ UNCHANGED goals
     ELSE /\ goals' = {g \in goals : g.id # goalId}
          /\ resp' = [op |-> "goalDelete", status |-> 204, message |-> ""]
  /\ UNCHANGED <<now, tz, users, habits, tracking, refreshTokens, nextId,
                 issued, retired, reqs>>

\* Two habits of two users; each owner creates, updates and deletes goals
\* of their habit.
TwoOwnersInit == SeedInit({Habit(1, 1, "Exercise"), Habit(2, 2, "Read")})

GoalCrudNext ==
  \/ /\ nextId.goal < MaxGoalIds
     /\ \E h \in habits, g \in GoalTypes :
          GoalCreate(h.userId, h.id, MaxTarget, g)
  \/ \E h \in habits, id \in 1..MaxGoalIds,
        f \in {NoTarget, 2}, g \in GoalTypes \cup {NoGoalType} :
       /\ \A q \in goals : q.id = id => q.habitId = h.id
       /\ GoalUpdate(h.userId, h.id, id, f, g)
  \/ \E h \in habits, id \in 1..MaxGoalIds :
       /\ \A q \in goals : q.id = id => q.habitId = h.id
       /\ GoalDelete(h.userId, h.id, id)

GoalCrudSpec == TwoOwnersInit /\ [][GoalCrudNext]_vars

\* ------------------------------------------------------------------------
\* C19. Whatever goals are created, updated (goalType included) and
\* deleted, a habit never has two goals of one goalType; creating a goal
\* of a goalType the habit already has is answered 400 "Goal for this type
\* already exists" and leaves the goals unchanged.
\* ------------------------------------------------------------------------
OneGoalPerType ==
  \A g, q \in goals :
    g.habitId = q.habitId /\ g.goalType = q.goalType => g = q

CreateConflict(habitId, goalType) ==
  (\E g \in goals : g.habitId = habitId /\ g.goalType = goalTypeMap(goalType))
  => /\ resp'.status = 400
     /\ resp'.message = "Goal for this type already exists"
     /\ UNCHANGED goals

C19_OneGoalPerType ==
  /\ []OneGoalPerType
  /\ [][\A h \in habits, g \in GoalTypes :
          GoalCreate(h.userId, h.id, MaxTarget, g)
          => CreateConflict(h.id, g)]_vars

\* An update that would give a habit a second goal of one goalType has
\* been refused, and both habits have a goal of the same goalType.
C19_Witness ==
  /\ resp.op = "goalUpdate"
  /\ resp.status = 500
  /\ \E g, q \in goals : g.habitId = q.habitId /\ g.goalType # q.goalType
  /\ \E g, q \in goals : g.habitId # q.habitId /\ g.goalType = q.goalType

\* ------------------------------------------------------------------------
\* GET, PUT and DELETE /habits/:id
\* ------------------------------------------------------------------------
\* The handlers authenticate the caller and then use params.id only.
HabitGet(u, id) ==
  /\ u \in UserIds
  /\ resp' = IF \A h \in habits : h.id # id
             THEN [op |-> "habitGet", status |-> 404,
                   message |-> "Habit not found"]
             ELSE [op |-> "habitGet", status |-> 200, message |-> "",
                   body |-> findById(id)]
  /\ UNCHANGED <<now, tz, users, habits, tracking, goals, refreshTokens,
                 nextId, issued, retired, reqs>>

\* prisma.habit.update({where: {id}, data}): P2025 when no habit has the
\* id, P2002 under Habit_userId_name_key.
habitUpdateError(hs, id, name) ==
  IF \A h \in hs : h.id # id THEN "P2025"
  ELSE LET habit == CHOOSE h \in hs : h.id = id
       IN IF \E q \in hs : /\ q.id # id
                            /\ q.userId = habit.userId
                            /\ q.name = name
          THEN "P2002"
          ELSE "ok"

\* HabitService.update; the route answers P2025 with 404 and rethrows
\* every other error.
HabitUpdate(u, id, name) ==
  /\ u \in UserIds
  /\ IF habitUpdateError(habits, id, name) = "P2025"
     THEN /\ resp' = [op |-> "habitUpdate", status |-> 404,
                      message |-> "Habit not found"]
          /\ UNCHANGED habits
     ELSE IF habitUpdateError(habits, id, name) # "ok"
     THEN /\ resp' = [op |-> "habitUpdate", status |-> 500,
                      message |-> habitUpdateError(habits, id, name)]
          /\ UNCHANGED habits
     ELSE /\ habits' = {IF h.id = id THEN [h EXCEPT !.name = name] ELSE h :
                        h \in habits}
          /\ resp' = [op |-> "habitUpdate", status |-> 200, message |-> ""]
  /\ UNCHANGED <<now, tz, users, tracking, goals, refreshTokens, nextId,
                 issued, retired, reqs>>

\* HabitService.delete: prisma.habit.delete({where: {id}}); the rows of
\* HabitTracking and HabitGoal go with the habit (ON DELETE CASCADE).
HabitDelete(u, id) ==
  /\ u \in UserIds
  /\ IF \A h \in habits : h.id # id
     THEN /\ resp' = [op |-> "habitDelete", status |-> 404,
                      message |-> "Habit not found"]
          /\ UNCHANGED <<habits, tracking, goals>>
     ELSE /\ habits' = {h \in habits : h.id # id}
          /\ tracking' = SelectSeq(tracking, LAMBDA r : r.habitId # id)
          /\ goals' = {g \in goals : g.habitId # id}
          /\ resp' = [op |-> "habitDelete", status |-> 204, message |-> ""]
  /\ UNCHANGED <<now, tz, users, refreshTokens, nextId, issued, retired,
                 reqs>>

\* Two habits of two users, and every request on a habit or on one of its
\* goals made by either user.
ScopeNext ==
  \/ \E u \in UserIds, id \in HabitIds : HabitGet(u, id)
  \/ \E u \in UserIds, id \in HabitIds : HabitUpdate(u, id, "Renamed")
  \/ \E u \in UserIds, id \in HabitIds : HabitDelete(u, id)
  \/ TrackNow(UserIds)
  \/ /\ nextId.goal < MaxGoalIds
     /\ \E u \in UserIds, h \in habits :
          GoalCreate(u, h.id, MaxTarget, "weekly")
  \/ \E u \in UserIds, g \in goals :
       GoalUpdate(u, g.habitId, g.id, 2, NoGoalType)
  \/ \E u \in UserIds, g \in goals : GoalDelete(u, g.habitId, g.id)

ScopeSpec == TwoOwnersInit /\ [][ScopeNext]_vars

\* ------------------------------------------------------------------------
\* C20. A request of user u on a habit owned by another user (read,
\* update, delete, log a completion, create, update or delete a goal) is
\* answered 404 and changes no store.
\* ------------------------------------------------------------------------
OnForeignHabit(u, h) ==
  \/ HabitGet(u, h.id)
  \/ HabitUpdate(u, h.id, "Renamed")
  \/ HabitDelete(u, h.id)
  \/ LogCompletion(u, h.id, now)
  \/ GoalCreate(u, h.id, MaxTarget, "weekly")
  \/ \E g \in goals :
       /\ g.habitId = h.id
       /\ \/ GoalUpdate(u, h.id, g.id, 2, NoGoalType)
          \/ GoalDelete(u, h.id, g.id)

C20_OwnerScoped ==
  [][\A u \in UserIds, h \in habits :
       h.userId # u /\ OnForeignHabit(u, h)
       => /\ resp'.status = 404
          /\ UNCHANGED <<users, habits, tracking, goals, refreshTokens>>]_vars

\* ------------------------------------------------------------------------
\* The authenticate guard of the protected routes
\* ------------------------------------------------------------------------
\* fastify.jwt.sign({userId, email}) with the registered expiresIn of 15
\* minutes, by the same instance and secret that sign the refresh tokens.
signAccess(userId, email, t) ==
  [userId |-> userId, email |-> email, iat |-> t \div MS_PER_SECOND,
   exp |-> t \div MS_PER_SECOND + ACCESS_TTL_S]

\* The access tokens issued so far: signup, login and refresh sign one
\* together with each refresh token, in the same second.
emailOf(userId) == (CHOOSE u \in users : u.id = userId).email

issuedAccess ==
  {signAccess(r.userId, emailOf(r.userId), r.iat * MS_PER_SECOND) :
   r \in issued}

\* A request without a bearer token.
NoBearer == Garbage

\* request.jwtVerify() of the decorator: the signature by the default
\* instance and the exp claim, nothing else.
authenticate(bearer, t) == jwtVerify(bearer, t)

Unauthorized(op) ==
  [op |-> op, status |-> 401,
   message |-> "Unauthorized - Invalid or missing token"]

\* POST /auth/logout behind the guard.
ProtectedLogout(bearer, refreshToken) ==
  IF authenticate(bearer, now)
  THEN Logout(refreshToken)
  ELSE /\ resp' = Unauthorized("logout")
       /\ UNCHANGED <<now, tz, users, habits, tracking, goals,
                      refreshTokens, nextId, issued, retired, reqs>>

\* The clock is observed when tokens are signed, in the last millisecond
\* of the life of an access token, and when it has expired.
GuardPoints ==
  {TimeOf(FirstDay, 1), TimeOf(FirstDay, ACCESS_TTL_S * MS_PER_SECOND - 1),
   TimeOf(FirstDay, ACCESS_TTL_S * MS_PER_SECOND)}

Bearers == issuedAccess \cup issued \cup {NoBearer}

GuardNext ==
  \/ Tick(GuardPoints)
  \/ \E e \in Emails : Signup(e, Password1)
  \/ /\ Cardinality(issued) < MaxTokens
     /\ \E e \in Emails : Login(e, Password1)
  \/ \E b \in Bearers, t \in issued : ProtectedLogout(b, t)

GuardSpec == AuthInit /\ [][GuardNext]_vars

\* ------------------------------------------------------------------------
\* C21. The guard admits a request only with a token issued as an access
\* token at most 15 minutes earlier; without a token, with an expired
\* access token or with a refresh token as bearer the reply is 401 and
\* nothing changes.
\* ------------------------------------------------------------------------
FreshAccessToken(bearer) ==
  /\ bearer \in issuedAccess
  /\ now < (bearer.iat + ACCESS_TTL_S) * MS_PER_SECOND

C21_GuardAdmitsAccessTokensOnly ==
  [][\A b \in Bearers, t \in issued :
       ProtectedLogout(b, t) /\ ~FreshAccessToken(b)
       => /\ resp'.status = 401
          /\ UNCHANGED <<users, habits, tracking, goals, refreshTokens>>]_vars

\* ------------------------------------------------------------------------
\* C22. A uniqueness violation raised by the store is answered as a
\* conflict (400 or 409), never as a raw storage error: here for a goal
\* created or updated to a goalType its habit already has.
\* ------------------------------------------------------------------------
Conflict == resp'.status \in {400, 409}

C22_ConflictsTranslated ==
  [][/\ \A h \in habits, g \in GoalTypes :
          /\ GoalCreate(h.userId, h.id, MaxTarget, g)
          /\ \E q \in goals : /\ q.habitId = h.id
                              /\ q.goalType = goalTypeMap(g)
          => Conflict
     /\ \A h \in habits, id \in 1..MaxGoalIds, f \in {NoTarget, 2},
           g \in GoalTypes \cup {NoGoalType} :
          /\ GoalUpdate(h.userId, h.id, id, f, g)
          /\ goalUpdateError(goals, id, g) = "P2002"
          => Conflict]_vars

\* ------------------------------------------------------------------------
\* C23. POST /habits/:habitId/track for a habitId that no habit has is
\* answered 404 "Habit not found" and stores no row.
\* ------------------------------------------------------------------------
C23_TrackMissingHabit ==
  [][\A u \in UserIds :
       LogCompletion(u, MissingHabitId, now)
       => /\ resp'.status = 404
          /\ resp'.message = "Habit not found"
          /\ UNCHANGED tracking]_vars

\* ------------------------------------------------------------------------
\* C24. For instants t and u, getVntDayBounds(t) = (start, end) has
\* start <= t <= end and end = start + 24h - 1ms; start, end and t have one
\* day index; u lies in [start, end] exactly when its day index is that of
\* t; and the bounds of end + 1ms start at end + 1ms.
\* ------------------------------------------------------------------------
C24_DayBounds ==
  resp.op = "day" =>
    LET t == ProbeTime(reqs[1])
        u == ProbeTime(reqs[2])
        start == resp.bounds1.start
        end == resp.bounds1.end
    IN /\ start <= t /\ t <= end
       /\ end = start + MS_PER_DAY - 1
       /\ getVntDayIndex(start) = resp.index1
       /\ getVntDayIndex(end) = resp.index1
       /\ (start <= u /\ u <= end) <=> (resp.index2 = resp.index1)
       /\ getVntDayBounds(end + 1).start = end + 1
       /\ getVntDayBounds(start - 1).end = start - 1

\* The bounds of an instant just before UTC midnight were computed, with
\* the first millisecond of the next tracking day as the other instant.
C24_Witness ==
  /\ resp.op = "day"
  /\ reqs[1].off = VNT_OFFSET_MS - 1
  /\ reqs[2].off = 0
  /\ reqs[2].day = reqs[1].day + 1
  /\ ProbeTime(reqs[2]) = resp.bounds1.end + 1
  /\ resp.index2 = resp.index1 + 1

\* ------------------------------------------------------------------------
\* C25. Sequential logCompletion calls: when a call passes the duplicate
\* check and the habit has a prior row (its row with the greatest
\* completedAt), the tracking day of completedAt differs from the tracking
\* day of the prior row; the stored streak is the prior row's streak plus 1
\* exactly when the day difference is 1, and 1 in every other case
\* (difference above 1, negative difference, no prior row).
\* ------------------------------------------------------------------------
PriorRows(h) ==
  {r \in Range(HabitLog(h)) :
     \A q \in Range(HabitLog(h)) : q.completedAt <= r.completedAt}

StoredRow == tracking'[Len(tracking')]

C25_StreakRule ==
  [][\A h \in habits, t \in TimePoints :
       (LogCompletion(h.userId, h.id, t) /\ resp'.status = 201)
       => /\ Len(tracking') = Len(tracking) + 1
          /\ StoredRow.habitId = h.id /\ StoredRow.completedAt = t
          /\ PriorRows(h.id) = {} => StoredRow.streak = 1
          /\ \A prior \in PriorRows(h.id) :
               LET diff == TrackingDay(t) - TrackingDay(prior.completedAt)
               IN /\ diff # 0
                  /\ diff = 1 => StoredRow.streak = prior.streak + 1
                  /\ diff # 1 => StoredRow.streak = 1]_vars

\* The habit has a continued streak and then a backdated row stored after
\* the later ones (negative difference).
C25_Witness ==
  \E h \in HabitIds :
    /\ Len(HabitLog(h)) = 3
    /\ TrackingDay(HabitLog(h)[1].completedAt) = FirstDay + 1
    /\ TrackingDay(HabitLog(h)[2].completedAt) = FirstDay + 2
    /\ TrackingDay(HabitLog(h)[3].completedAt) = FirstDay
    /\ HabitLog(h)[1].streak = 1
    /\ HabitLog(h)[2].streak = 2
    /\ HabitLog(h)[3].streak = 1

\* ------------------------------------------------------------------------
\* C26. logCompletion never modifies a stored HabitTracking row: after any
\* call every row stored before is still there with its completedAt and
\* streak; a backdated completion (completedAt earlier than the habit's
\* latest row, on a day without a row) is stored with streak 1, and
\* getStreak returns the same value after it as before, the snapshot of the
\* latest row.
\* ------------------------------------------------------------------------
Backdated(h, t) == \E r \in PriorRows(h) : t < r.completedAt

C26_RowsNeverModified ==
  [][\A h \in habits, t \in TimePoints :
       LogCompletion(h.userId, h.id, t)
       => /\ Len(tracking') >= Len(tracking)
          /\ SubSeq(tracking', 1, Len(tracking)) = tracking
          /\ (resp'.status = 201 /\ Backdated(h.id, t))
             => /\ StoredRow.streak = 1
                /\ getStreak(h.id)' = getStreak(h.id)
                /\ \A r \in PriorRows(h.id) : getStreak(h.id)' = r.streak]_vars

\* A completion for the first day was stored after the rows of the two
\* following days, and the streak read afterwards is still 2.
C26_Witness ==
  \E h \in HabitIds :
    /\ Len(HabitLog(h)) = 3
    /\ TrackingDay(HabitLog(h)[1].completedAt) = FirstDay + 1
    /\ TrackingDay(HabitLog(h)[2].completedAt) = FirstDay + 2
    /\ TrackingDay(HabitLog(h)[3].completedAt) = FirstDay
    /\ HabitLog(h)[2].streak = 2
    /\ HabitLog(h)[3].streak = 1
    /\ resp.op = "streak" /\ resp.status = 200 /\ resp.streak = 2

\* ------------------------------------------------------------------------
\* C27. Rotation is atomic: when a /auth/refresh request has completed,
\* with 200 or with 401, either the store is as it was (the presented token
\* still there, nothing new stored), or the presented token's record is gone
\* and exactly one new record, of the same user, was stored. The store never
\* loses the presented token without receiving a replacement.
\* ------------------------------------------------------------------------
Presented(t) == {r \in refreshTokens : r.token = t}

C27_RotationAtomic ==
  [][\A t \in issued \cup {Garbage} :
       Refresh(t)
       => \/ refreshTokens' = refreshTokens
          \/ /\ Presented(t) # {}
             /\ Presented(t) \cap refreshTokens' = {}
             /\ \E n \in refreshTokens' \ refreshTokens :
                  /\ refreshTokens' = (refreshTokens \ Presented(t)) \cup {n}
                  /\ \A r \in Presented(t) : n.userId = r.userId]_vars

\* ------------------------------------------------------------------------
\* C28. When the completions of a habit were logged sequentially with
\* strictly increasing completedAt (and no row was deleted), getStreak of
\* the habit is the length of the maximal run of consecutive tracking days
\* that ends at the day of the latest row, and 0 for a habit without rows.
\* ------------------------------------------------------------------------
Increasing(s) ==
  \A i \in 1..(Len(s) - 1) : s[i].completedAt < s[i + 1].completedAt

LoggedDays(h) == {TrackingDay(r.completedAt) : r \in Range(HabitLog(h))}

LatestDay(h) == CHOOSE d \in LoggedDays(h) : \A e \in LoggedDays(h) : e <= d

\* The streak of the glossary: the count of consecutive tracking days,
\* ending at the latest one, with no gap.
GlossaryStreak(h) ==
  IF LoggedDays(h) = {} THEN 0
  ELSE CHOOSE k \in 1..Cardinality(LoggedDays(h)) :
         /\ \A j \in 0..(k - 1) : LatestDay(h) - j \in LoggedDays(h)
         /\ LatestDay(h) - k \notin LoggedDays(h)

C28_StreakIsRunLength ==
  \A h \in HabitIds :
    Increasing(HabitLog(h)) => getStreak(h) = GlossaryStreak(h)

\* Days 1, 3 and 4 logged in that order: the run ending at day 4 has
\* length 2, after a reset at day 3.
C28_Witness ==
  \E h \in HabitIds :
    /\ Len(HabitLog(h)) = 3
    /\ Increasing(HabitLog(h))
    /\ LoggedDays(h) = {FirstDay, FirstDay + 2, FirstDay + 3}
    /\ getStreak(h) = 2
    /\ resp.op = "streak" /\ resp.streak = 2

\* ------------------------------------------------------------------------
\* C29. In every reachable state the userId stored on each HabitTracking
\* row and on each HabitGoal row is the userId of the habit the row
\* references, whichever authenticated users log completions and create
\* goals.
\* ------------------------------------------------------------------------
OwnerOf(habitId) == {h.userId : h \in {q \in habits : q.id = habitId}}

C29_DenormalizedOwner ==
  /\ \A r \in Rows : OwnerOf(r.habitId) = {r.userId}
  /\ \A g \in goals : OwnerOf(g.habitId) = {g.userId}

\* ------------------------------------------------------------------------
\* C30. Every successful signup, login or refresh stores a refresh token
\* that differs from every refresh token in the store at that moment and
\* from the token being rotated out, whatever the timing of the requests;
\* storeRefreshToken never fails on the unique index of RefreshToken.token,
\* and each such request adds exactly one record to the store. (A refresh
\* request whose token verifies is answered 401 "Invalid refresh token" only
\* when a call after the verification threw, here storeRefreshToken.)
\* ------------------------------------------------------------------------
StoredTokens == {r.token : r \in refreshTokens}

UniqueViolation == resp'.status = 500 /\ resp'.message = "P2002"

AddsOneFreshToken(others) ==
  \E n \in refreshTokens' \ refreshTokens :
    /\ refreshTokens' = others \cup {n}
    /\ n.token \notin StoredTokens

C30_FreshTokenStored ==
  [][/\ \A e \in Emails :
          Signup(e, Password1)
          => /\ ~UniqueViolation
             /\ resp'.status = 201 => AddsOneFreshToken(refreshTokens)
     /\ \A e \in Emails, p \in Passwords :
          Login(e, p)
          => /\ ~UniqueViolation
             /\ resp'.status = 200 => AddsOneFreshToken(refreshTokens)
     /\ \A t \in issued :
          Refresh(t)
          => /\ ~(jwtVerify(t, now) /\ resp'.status = 401
                  /\ resp'.message = "Invalid refresh token")
             /\ resp'.status = 200
                => AddsOneFreshToken(refreshTokens \ Presented(t))]_vars

====
